---- MODULE Spec2Model ----
(***************************************************************************)
(* Model of the distributed ball sorting consensus engine                  *)
(* (BaseConsensusService and the services it drives).                      *)
(*                                                                         *)
(* Three processes hold stacks of coloured balls and exchange single balls *)
(* through REQUEST / SEND / DONE messages kept in one FIFO queue.  The     *)
(* driver loop of startConsensus() pops one message per iteration, runs a  *)
(* periodic conflict / stagnation check every 10th iteration and forces    *)
(* completion after 200 iterations.                                        *)
(*                                                                         *)
(* Message timestamps (Date.now()) are never read by the engine and are    *)
(* left out of the message records.                                        *)
(***************************************************************************)
EXTENDS Integers, Sequences, FiniteSets, TLC

\* ------------------------------------------------------------------ types
Colors == {"R", "G", "B"}
ProcessIds == {1, 2, 3}
NumProcesses == 3
\* wanted: Color | null
Null == "null"
\* partner: ProcessId | null
NoPartner == 0

\* ------------------------------------------------------------------ bounds
\* Largest total number of balls in a generated custom distribution.
MaxTokens == 2
\* Number of engine iterations a client keeps a getSystemState() snapshot.
MaxHold == 1
\* Sleeps into a run up to which a reset cutting into it is explored.
MaxCancelAt == 0

\* ------------------------------------------------------------------ program constants
CheckPeriod == 10
StagnationLimit == 5
IterationCeiling == 200
\* Number.MAX_SAFE_INTEGER: only read as a value above every potential.
MAX_SAFE_INTEGER == 2147483647

\* ------------------------------------------------------------------ sequences
Range(s) == {s[i] : i \in DOMAIN s}

Count(stack, c) == Cardinality({i \in DOMAIN stack : stack[i] = c})

\* splice(i) without a delete count: everything from i on is removed.
RemoveAtToEnd(s, i) == SubSeq(s, 1, i - 1)

RemoveAt(s, i) == SubSeq(s, 1, i - 1) \o SubSeq(s, i + 1, Len(s))

\* Index of the first occurrence of x in s.
FirstIndex(s, x) == CHOOSE i \in DOMAIN s : s[i] = x /\ \A j \in 1..(i - 1) : s[j] /= x

\* Keys of a Map filled by iterating over s: the distinct elements of s in
\* order of first insertion.
MapKeys(s) ==
  [k \in 1..Cardinality(Range(s)) |->
     CHOOSE x \in Range(s) :
       Cardinality({y \in Range(s) : FirstIndex(s, y) < FirstIndex(s, x)}) = k - 1]

\* Array.prototype.sort with comparator key(a) - key(b): stable, ascending.
RECURSIVE InsertSorted(_, _, _)
InsertSorted(sorted, x, key) ==
  IF sorted = <<>> THEN <<x>>
  ELSE IF key[x] < key[Head(sorted)] THEN <<x>> \o sorted
       ELSE <<Head(sorted)>> \o InsertSorted(Tail(sorted), x, key)

RECURSIVE StableSort(_, _)
StableSort(s, key) ==
  IF s = <<>> THEN <<>>
  ELSE InsertSorted(StableSort(SubSeq(s, 1, Len(s) - 1), key), s[Len(s)], key)

\* Entries of the colour-count Map of a stack sorted by ([,a],[,b]) => b - a.
SortedColors(stack) ==
  StableSort(MapKeys(stack), [c \in Colors |-> 0 - Count(stack, c)])

\* entries.reduce((max, current) => current[1] > max[1] ? current : max)[0]
RECURSIVE ReduceMax(_, _, _)
ReduceMax(keys, max, stack) ==
  IF keys = <<>> THEN max
  ELSE ReduceMax(Tail(keys),
                 IF Count(stack, Head(keys)) > Count(stack, max) THEN Head(keys) ELSE max,
                 stack)

DominantColor(stack) == ReduceMax(Tail(MapKeys(stack)), Head(MapKeys(stack)), stack)

\* ------------------------------------------------------------------ ColorSelectionService
\* priorities: 1 -> [R,G,B], 2 -> [G,B,R], 3 -> [B,R,G]
ColorPriorities == [i \in ProcessIds |->
  CASE i = 1 -> <<"R", "G", "B">>
    [] i = 2 -> <<"G", "B", "R">>
    [] i = 3 -> <<"B", "R", "G">>]

\* processColorOrder.indexOf(color) + 1
getColorPriorityForProcess(processId, color) ==
  CHOOSE k \in 1..3 : ColorPriorities[processId][k] = color

\* Competing REQUESTs for color among the last 10 messages of the array passed in.
estimateOtherProcessClaims(processId, color, messages) ==
  LET recent == SubSeq(messages, IF Len(messages) > 10 THEN Len(messages) - 9 ELSE 1,
                       Len(messages))
      competing == {i \in DOMAIN recent :
                      /\ recent[i].type = "REQUEST"
                      /\ recent[i].color = color
                      /\ recent[i].from /= processId}
  IN  Cardinality(competing) >= 2

\* count / totalBalls compared with 0.5, 0.4 and 0.3 (exact on small integers).
shouldProcessClaimColor(processId, stack, color, count) ==
  LET totalBalls == Len(stack)
  IN  IF 2 * count > totalBalls THEN TRUE
      ELSE IF 10 * count >= 4 * totalBalls
           THEN getColorPriorityForProcess(processId, color) = 1
      ELSE IF 10 * count >= 3 * totalBalls
           THEN /\ getColorPriorityForProcess(processId, color) = 1
                /\ ~estimateOtherProcessClaims(processId, color, <<>>)
      ELSE FALSE

\* The first colour of the process's priority order is wanted, held or not.
computeWantedColorByPriorityOnly(processId, proc) == ColorPriorities[processId][1]

\* New value of process.wanted.
computeWantedColor(processId, proc) ==
  IF proc.stack = <<>> THEN proc.wanted
  ELSE LET sorted == SortedColors(proc.stack)
           claimed == SelectSeq(sorted,
                        LAMBDA c : shouldProcessClaimColor(processId, proc.stack, c,
                                                           Count(proc.stack, c)))
       IN  IF claimed /= <<>> THEN Head(claimed) ELSE proc.stack[1]

\* Ids (ascending) of the not-done processes that want color c.
RECURSIVE Claimants(_, _, _)
Claimants(procs, c, i) ==
  IF i > NumProcesses THEN <<>>
  ELSE (IF procs[i].wanted = c /\ ~procs[i].isDone THEN <<i>> ELSE <<>>)
       \o Claimants(procs, c, i + 1)

\* Keys of the colorWants Map: wanted colours of not-done processes, in process order.
RECURSIVE WantedKeys(_, _)
WantedKeys(procs, i) ==
  IF i > NumProcesses THEN <<>>
  ELSE (IF procs[i].wanted /= Null /\ ~procs[i].isDone THEN <<procs[i].wanted>> ELSE <<>>)
       \o WantedKeys(procs, i + 1)

detectColorConflicts(procs) ==
  \E c \in Colors : Len(Claimants(procs, c, 1)) > 1

\* New value of process.wanted for the loser of a conflict.
forceAlternativeColor(proc, conflictColor) ==
  LET alternatives == SelectSeq(SortedColors(proc.stack), LAMBDA c : c /= conflictColor)
  IN  IF alternatives /= <<>> THEN Head(alternatives) ELSE proc.wanted

RECURSIVE ForceLosers(_, _, _)
ForceLosers(procs, losers, color) ==
  IF losers = <<>> THEN procs
  ELSE ForceLosers([procs EXCEPT ![Head(losers)].wanted =
                                    forceAlternativeColor(procs[Head(losers)], color)],
                   Tail(losers), color)

\* The groups are built before any wanted colour is changed.
RECURSIVE ResolveGroups(_, _, _)
ResolveGroups(procs, keys, groups) ==
  IF keys = <<>> THEN procs
  ELSE LET color == Head(keys)
           conflicted == groups[color]
           ranked == StableSort(conflicted,
                       [i \in ProcessIds |-> getColorPriorityForProcess(i, color)])
       IN  ResolveGroups(IF Len(conflicted) > 1
                           THEN ForceLosers(procs, Tail(ranked), color)
                           ELSE procs,
                         Tail(keys), groups)

resolveColorConflicts(procs) ==
  ResolveGroups(procs, MapKeys(WantedKeys(procs, 1)),
                [c \in Colors |-> Claimants(procs, c, 1)])

\* ------------------------------------------------------------------ PartnerSelectionService
calculatePartnerScore(proc, candidate) ==
  IF proc.wanted = Null THEN 0
  ELSE Count(candidate.stack, proc.wanted) * 3
       - (IF candidate.wanted = proc.wanted THEN 20 ELSE 0)
       + (IF candidate.wanted /= Null
            THEN Cardinality({i \in DOMAIN proc.stack :
                                proc.stack[i] = candidate.wanted
                                /\ proc.stack[i] /= proc.wanted}) * 2
            ELSE 0)

RECURSIVE OtherProcesses(_, _, _)
OtherProcesses(procs, p, i) ==
  IF i > NumProcesses THEN <<>>
  ELSE (IF i /= p /\ ~procs[i].isDone THEN <<i>> ELSE <<>>) \o OtherProcesses(procs, p, i + 1)

\* The loop "if (score > bestScore)" starting from bestScore = -1.
RECURSIVE BestPartner(_, _, _, _, _)
BestPartner(procs, p, candidates, bestPartner, bestScore) ==
  IF candidates = <<>> THEN <<bestPartner, bestScore>>
  ELSE LET score == calculatePartnerScore(procs[p], procs[Head(candidates)])
       IN  IF score > bestScore
             THEN BestPartner(procs, p, Tail(candidates), Head(candidates), score)
             ELSE BestPartner(procs, p, Tail(candidates), bestPartner, bestScore)

IndexOf(s, x) == IF x \in Range(s) THEN CHOOSE i \in DOMAIN s : s[i] = x ELSE 0

\* The lowest other process is chosen, done or not.
choosePartnerAnyOther(procs, p) == IF p = 1 THEN 2 ELSE 1

\* The best-scoring candidate is taken even when no score is above 0.
choosePartnerNoRoundRobin(procs, p) ==
  LET otherProcesses == OtherProcesses(procs, p, 1)
      best == BestPartner(procs, p, otherProcesses, NoPartner, -1)
  IN  IF otherProcesses = <<>> THEN NoPartner
      ELSE IF best[1] = NoPartner THEN otherProcesses[1]
      ELSE best[1]

\* New value of process.partner.
choosePartner(procs, p) ==
  LET otherProcesses == OtherProcesses(procs, p, 1)
      best == BestPartner(procs, p, otherProcesses, NoPartner, -1)
  IN  IF otherProcesses = <<>> THEN NoPartner
      ELSE IF best[1] = NoPartner \/ best[2] <= 0
           THEN LET current == IF procs[p].partner /= NoPartner
                                 THEN IndexOf(otherProcesses, procs[p].partner) ELSE 0
                IN  otherProcesses[(current % Len(otherProcesses)) + 1]
           ELSE best[1]

\* ------------------------------------------------------------------ MessageHandlingService
\* The handlers work on the pair st = [procs, queue] of the engine's process
\* array and message queue and return the pair as they leave it.
\* Every message is addressed to the process it comes from.
MessageToSender(type, from, to, color) ==
  [type |-> type, from |-> from, to |-> from, color |-> color]

Message(type, from, to, color) == [type |-> type, from |-> from, to |-> to, color |-> color]

\* The request is put at the front of the queue.
sendRequestAtFront(st, p) ==
  IF st.procs[p].partner = NoPartner \/ st.procs[p].wanted = Null THEN st
  ELSE [st EXCEPT !.queue = <<Message("REQUEST", p, st.procs[p].partner,
                                      st.procs[p].wanted)>> \o @]

sendRequest(st, p) ==
  IF st.procs[p].partner = NoPartner \/ st.procs[p].wanted = Null THEN st
  ELSE [st EXCEPT !.queue = Append(@, Message("REQUEST", p, st.procs[p].partner,
                                              st.procs[p].wanted))]

RECURSIVE DoneMessages(_, _, _)
DoneMessages(procs, p, i) ==
  IF i > NumProcesses THEN <<>>
  ELSE (IF i /= p /\ ~procs[i].isDone THEN <<Message("DONE", p, i, Null)>> ELSE <<>>)
       \o DoneMessages(procs, p, i + 1)

sendDoneMessages(st, p) == [st EXCEPT !.queue = @ \o DoneMessages(st.procs, p, 1)]

\* if (!process.isDone) { process.isDone = true; sendDoneMessages(...) }
MarkDone(st, p) ==
  IF st.procs[p].isDone THEN st
  ELSE sendDoneMessages([st EXCEPT !.procs[p].isDone = TRUE], p)

\* Some other not-done process holds color while its own dominant colour differs.
OthersHaveUnwanted(procs, p, color) ==
  \E q \in ProcessIds :
    /\ q /= p
    /\ ~procs[q].isDone
    /\ color \in Range(procs[q].stack)
    /\ DominantColor(procs[q].stack) /= color

\* The dominant-colour share is not looked at.
isProcessInOptimalStateNoThreshold(procs, p, perfectAchievable) ==
  LET stack == procs[p].stack
  IN  IF stack = <<>> THEN TRUE
      ELSE IF perfectAchievable THEN Cardinality(Range(stack)) = 1
      ELSE /\ ~OthersHaveUnwanted(procs, p, DominantColor(stack))
           /\ ~\E q \in ProcessIds :
                 /\ q /= p
                 /\ ~procs[q].isDone
                 /\ procs[q].stack /= <<>>
                 /\ DominantColor(procs[q].stack) /= DominantColor(stack)
                 /\ DominantColor(procs[q].stack) \in Range(stack)

isProcessInOptimalState(procs, p, perfectAchievable) ==
  LET stack == procs[p].stack
  IN  IF stack = <<>> THEN TRUE
      ELSE IF perfectAchievable THEN Cardinality(Range(stack)) = 1
      ELSE LET dominantColor == DominantColor(stack)
               dominantCount == Count(stack, dominantColor)
               otherProcessesHaveUnwantedDominantColor ==
                 OthersHaveUnwanted(procs, p, dominantColor)
               thisProcessCanGiveAwayUnwantedBalls ==
                 \E q \in ProcessIds :
                   /\ q /= p
                   /\ ~procs[q].isDone
                   /\ procs[q].stack /= <<>>
                   /\ \E i \in DOMAIN stack :
                        /\ stack[i] = DominantColor(procs[q].stack)
                        /\ stack[i] /= dominantColor
           IN  IF otherProcessesHaveUnwantedDominantColor
                    \/ thisProcessCanGiveAwayUnwantedBalls
                 THEN FALSE
               ELSE IF Cardinality(Range(stack)) = 2
                 THEN 10 * dominantCount >= 8 * Len(stack)
               ELSE 10 * dominantCount >= 6 * Len(stack)

\* No process is ever marked done by the check.
checkMonochromeNever(st, p, perfectAchievable) == st

\* An empty stack is not taken as complete.
checkMonochromeSkipsEmpty(st, p, perfectAchievable) ==
  IF st.procs[p].stack = <<>> THEN st
  ELSE IF isProcessInOptimalState(st.procs, p, perfectAchievable) THEN MarkDone(st, p)
  ELSE st

checkMonochrome(st, p, perfectAchievable) ==
  LET stack == st.procs[p].stack
  IN  IF stack = <<>> THEN MarkDone(st, p)
      ELSE IF Cardinality(Range(stack)) = 1 /\ ~OthersHaveUnwanted(st.procs, p, stack[1])
             THEN MarkDone(st, p)
      ELSE IF isProcessInOptimalState(st.procs, p, perfectAchievable)
             THEN MarkDone(st, p)
      ELSE st

\* onComputeWantedColor, onChoosePartner, then sendRequest if a partner was found.
ContinueProtocol(st, p) ==
  LET s1 == [st EXCEPT !.procs[p].wanted = computeWantedColor(p, st.procs[p])]
      s2 == [s1 EXCEPT !.procs[p].partner = choosePartner(s1.procs, p)]
  IN  IF s2.procs[p].partner /= NoPartner THEN sendRequest(s2, p) ELSE s2

\* The first ball of the requested colour, wanted by its holder or not.
BallIndexIgnoresWanted(stack, requestedColor, wanted) ==
  LET hits == {i \in DOMAIN stack : stack[i] = requestedColor}
  IN  IF hits = {} THEN 0 ELSE CHOOSE i \in hits : \A j \in hits : i <= j

\* findIndex(color === requestedColor && color !== recipient.wanted), 0 for -1.
BallIndex(stack, requestedColor, wanted) ==
  LET hits == {i \in DOMAIN stack : stack[i] = requestedColor /\ stack[i] /= wanted}
  IN  IF hits = {} THEN 0 ELSE CHOOSE i \in hits : \A j \in hits : i <= j

\* A request is dropped without a ball being sent.
handleRequestRefuses(st, message, perfectAchievable) == st

handleRequest(st, message, perfectAchievable) ==
  IF message.color = Null THEN st
  ELSE LET r == message.to
           ballIndex == BallIndex(st.procs[r].stack, message.color, st.procs[r].wanted)
           s1 == IF ballIndex /= 0
                   THEN checkMonochrome(
                          [st EXCEPT !.procs[r].stack = RemoveAt(@, ballIndex),
                                     !.queue = Append(@, Message("SEND", r, message.from,
                                                                 st.procs[r].stack[ballIndex]))],
                          r, perfectAchievable)
                   ELSE st
       IN  IF ~s1.procs[r].isDone THEN ContinueProtocol(s1, r) ELSE s1

\* A SEND that reaches a process already done is discarded with its ball.
handleSendDiscardsForDone(st, message, perfectAchievable) ==
  IF message.color = Null \/ st.procs[message.to].isDone THEN st
  ELSE LET r == message.to
           s1 == checkMonochrome([st EXCEPT !.procs[r].stack = Append(@, message.color)],
                                 r, perfectAchievable)
       IN  IF ~s1.procs[r].isDone THEN ContinueProtocol(s1, r) ELSE s1

\* The process that sent the ball loses its partner.
handleSendClearsSenderPartner(st, message, perfectAchievable) ==
  IF message.color = Null THEN st
  ELSE LET r == message.to
           s1 == checkMonochrome([st EXCEPT !.procs[r].stack = Append(@, message.color),
                                            !.procs[message.from].partner = NoPartner],
                                 r, perfectAchievable)
       IN  IF ~s1.procs[r].isDone THEN ContinueProtocol(s1, r) ELSE s1

\* Returns the pair; the caller adds one to totalExchanges when a colour is carried.
handleSend(st, message, perfectAchievable) ==
  IF message.color = Null THEN st
  ELSE LET r == message.to
           s1 == checkMonochrome([st EXCEPT !.procs[r].stack = Append(@, message.color)],
                                 r, perfectAchievable)
       IN  IF ~s1.procs[r].isDone THEN ContinueProtocol(s1, r) ELSE s1

\* The process the message is addressed to is marked done.
handleDoneMarksRecipient(st, message) == [st EXCEPT !.procs[message.to].isDone = TRUE]

\* sender.isDone = false
handleDoneClears(st, message) == [st EXCEPT !.procs[message.from].isDone = FALSE]

handleDone(st, message) == [st EXCEPT !.procs[message.from].isDone = TRUE]

RECURSIVE TriggerFrom(_, _)
TriggerFrom(st, i) ==
  IF i > NumProcesses THEN st
  ELSE LET hasPendingMessages ==
             \E k \in DOMAIN st.queue :
               st.queue[k].from = i /\ st.queue[k].type = "REQUEST"
       IN  TriggerFrom(IF ~st.procs[i].isDone /\ ~hasPendingMessages
                         THEN ContinueProtocol(st, i) ELSE st,
                       i + 1)

triggerNewRequests(st) == TriggerFrom(st, 1)

\* ------------------------------------------------------------------ SystemStateService
RECURSIVE AllBalls(_, _)
AllBalls(procs, i) ==
  IF i > NumProcesses THEN <<>> ELSE procs[i].stack \o AllBalls(procs, i + 1)

\* Balls of all stacks in the order getTotalColorCounts visits them.
getTotalColorCounts(procs) == AllBalls(procs, 1)

\* The greedy loop over remainingCounts (entries <<colour, count>> in sorted
\* order): number of processes served before the loop returns false, or all.
RECURSIVE GreedyAssign(_, _, _)
GreedyAssign(remaining, ballsPerProcess, todo) ==
  IF todo = 0 THEN 0
  ELSE LET fits == {k \in DOMAIN remaining : remaining[k][2] >= ballsPerProcess}
       IN  IF fits = {} THEN 0 - NumProcesses
           ELSE LET k == CHOOSE x \in fits : \A y \in fits : x <= y
                    left == remaining[k][2] - ballsPerProcess
                    next == IF left = 0 THEN RemoveAt(remaining, k)
                            ELSE [remaining EXCEPT ![k] = <<remaining[k][1], left>>]
                IN  1 + GreedyAssign(next, ballsPerProcess, todo - 1)

\* The greedy assignment is skipped: enough colours and a divisible total suffice.
isPerfectMonochromeAchievableNoGreedy(procs) ==
  LET all == AllBalls(procs, 1)
  IN  Len(MapKeys(all)) >= NumProcesses /\ Len(all) % NumProcesses = 0

\* The number of colours present is not looked at.
isPerfectMonochromeAchievableAnyColors(procs) ==
  LET all == AllBalls(procs, 1)
      totalBalls == Len(all)
      sortedColors == SortedColors(all)
      ballsPerProcess == totalBalls \div NumProcesses
  IN  /\ totalBalls % NumProcesses = 0
      /\ GreedyAssign([k \in DOMAIN sortedColors |->
                         <<sortedColors[k], Count(all, sortedColors[k])>>],
                      ballsPerProcess, NumProcesses) = NumProcesses

isPerfectMonochromeAchievable(procs) ==
  LET all == getTotalColorCounts(procs)
      totalBalls == Len(all)
      sortedColors == SortedColors(all)
      ballsPerProcess == totalBalls \div NumProcesses
      assigned == GreedyAssign([k \in DOMAIN sortedColors |->
                                  <<sortedColors[k], Count(all, sortedColors[k])>>],
                               ballsPerProcess, NumProcesses)
  IN  IF Len(MapKeys(all)) < NumProcesses THEN FALSE
      ELSE IF totalBalls % NumProcesses /= 0 THEN FALSE
      ELSE IF assigned < NumProcesses THEN FALSE
      ELSE assigned * ballsPerProcess = totalBalls

canProcessImprove(stack, all) ==
  IF stack = <<>> THEN FALSE
  ELSE LET dominantColor == DominantColor(stack)
           dominantCount == Count(stack, dominantColor)
           totalOfDominantColor == Count(all, dominantColor)
           maxPossibleDominantBalls ==
             IF totalOfDominantColor < Len(stack) THEN totalOfDominantColor ELSE Len(stack)
       IN  dominantCount < maxPossibleDominantBalls

isOptimalConsensusReached(procs, queue) ==
  IF Len(queue) > 0 THEN FALSE
  ELSE IF isPerfectMonochromeAchievable(procs)
    THEN \A p \in ProcessIds :
           procs[p].stack = <<>> \/ Cardinality(Range(procs[p].stack)) = 1
  ELSE \A p \in ProcessIds :
         procs[p].stack = <<>>
         \/ ~canProcessImprove(procs[p].stack, getTotalColorCounts(procs))

\* Complete only when every process is done and the queue is empty.
isSystemCompleteAllDone(procs, queue) ==
  (\A p \in ProcessIds : procs[p].isDone) /\ Len(queue) = 0

\* Pending messages are not looked at.
isSystemCompleteIgnoresQueue(procs, queue) == \A p \in ProcessIds : procs[p].isDone

isSystemComplete(procs, queue) ==
  IF (\A p \in ProcessIds : procs[p].isDone) /\ Len(queue) = 0 THEN TRUE
  ELSE isOptimalConsensusReached(procs, queue)

\* The largest colour count is taken to be 0.
MaxCountZero(stack) == 0

\* Math.max(...colorCounts.values()) of a non-empty stack.
MaxCount(stack) ==
  CHOOSE n \in 0..Len(stack) :
    /\ \E c \in Range(stack) : Count(stack, c) = n
    /\ \A c \in Range(stack) : Count(stack, c) <= n

RECURSIVE PhiFrom(_, _)
PhiFrom(procs, i) ==
  IF i > NumProcesses THEN 0
  ELSE (IF procs[i].stack = <<>> THEN 0 ELSE Len(procs[i].stack) - MaxCount(procs[i].stack))
       + PhiFrom(procs, i + 1)

calculatePotentialFunction(procs) == PhiFrom(procs, 1)

\* { ...p }: wanted, partner and isDone are copied; the stack field of the
\* copy is the same array object as the process's stack.  An array object is
\* named by the id of the process it was created for.
StackRef(p) == <<"stack", p>>

createSystemState(procs, queue, exchanges) ==
  [processes |-> [p \in ProcessIds |->
                    [id |-> p, stack |-> StackRef(p), wanted |-> procs[p].wanted,
                     partner |-> procs[p].partner, isDone |-> procs[p].isDone]],
   messages |-> queue,
   isComplete |-> isSystemComplete(procs, queue),
   totalExchanges |-> exchanges]

\* The history keeps the latest snapshot only.
saveSystemStateLatestOnly(procs, queue, exchanges, history) ==
  <<createSystemState(procs, queue, exchanges)>>

saveSystemState(procs, queue, exchanges, history) ==
  Append(history, createSystemState(procs, queue, exchanges))

\* ------------------------------------------------------------------ distributions
\* Built-in initialDistributions of BaseConsensusService.
DefaultDistributions ==
  << <<"R","R","R","G","G","G","B","B","B","R">>,
     <<"G","G","G","R","R","B","B","B","R","R">>,
     <<"B","B","B","B","R","G","G","G","G","R">> >>

\* Custom distributions used by the repository's test suites.
TestDistributions ==
  { << <<"R","R","G">>, <<"G","G","G","G","B","B">>, <<"B","B","B","B","B","R","R","R","R">> >>,
    << <<"R","G">>, <<"B","R">>, <<"G","B">> >>,
    << <<"R","R","G","B">>, <<"G","G","R","B">>, <<"B","B","G","R">> >>,
    << <<"R","R","G","B">>, <<"G","G","R","G">>, <<"B","B","R","G">> >>,
    << <<"R","R","G","G">>, <<>>, <<"R","G">> >>,
    << <<"R","R","G","B">>, <<"G","G","R","R">>, <<"B","B","R","G">> >>,
    << <<"R","R","R","G">>, <<"G">>, <<"R","G">> >> }

StacksUpTo(n) == UNION {[1..k -> Colors] : k \in 0..n}

\* Every distribution over the three processes with at most MaxTokens balls.
SmallDistributions ==
  {d \in [ProcessIds -> StacksUpTo(MaxTokens)] :
     Len(d[1]) + Len(d[2]) + Len(d[3]) <= MaxTokens}

\* Distributions whose runs find the queue empty while a process is still
\* active (stagnation stop after 60 iterations), leave the loop through the
\* stagnation stop with a ball still in flight (70 iterations) and through
\* the iteration ceiling.
LongRunDistributions ==
  { << <<>>, <<"B">>, <<"R","G">> >>,
    << <<"B","R","G","G">>, <<"B","B","R","B">>, <<"B">> >>,
    << <<"R","B","B","G","B","B","G","G","G","G","R","B">>,
       <<"R","G","R","G","R">>,
       <<"R","R","G","B","G","B","R","G","B","G","R","R","G","B","R","B","G","R","R">> >> }

\* A distribution whose run delivers a ball of a colour that is not the
\* most frequent one of the stack it joins.
MixedDeliveryDistributions ==
  { << <<"R","G","G","B">>, <<"B","R","G","B">>, <<"B","G">> >> }

\* A distribution whose run dispatches a REQUEST to a process that became
\* done after the REQUEST was enqueued.
LateRequestDistributions ==
  { << <<"G","B">>, <<"B","G">>, <<"G","R">> >> }

\* A distribution on which all three processes want the same colour when the
\* first periodic conflict check runs.
TripleConflictDistributions ==
  { << <<"R","G">>, <<"R","R","G">>, <<"R","G">> >> }

Distributions ==
  SmallDistributions \cup TestDistributions \cup LongRunDistributions
    \cup MixedDeliveryDistributions \cup LateRequestDistributions
    \cup TripleConflictDistributions

\* ------------------------------------------------------------------ state
\* startConsensus() calls that can be in progress at once: a call keeps its
\* locals while it is suspended at an await, so a call suspended when reset()
\* runs and a call made afterwards exist side by side.
Drivers == {1, 2}

VARIABLES
  processes,                    \* this.processes: id -> [stack, wanted, partner, isDone]
  messageQueue,                 \* this.messageQueue
  systemHistory,                \* this.systemHistory
  totalExchanges,               \* this.totalExchanges
  isRunning,                    \* this.isRunning
  initialDistributions,         \* this.initialDistributions
  perfectMonochromeAchievable,  \* this.perfectMonochromeAchievable
  pc,                           \* per call: where the startConsensus() call stands
  iterationCount,               \* per call: locals of startConsensus()
  lastPotentialFunction,
  stagnationCounter,
  callResult,                   \* outcome of the client's call made in the current pause
  exitKind,                     \* how the loop of the last run was left
  dispatched,                   \* messages handed to a handler since the last reset
  supplied,                     \* distribution last passed to reset(d) / the default
  held,                         \* snapshot a client got from getSystemState()
  heldAge,                      \* iterations since the client got it
  dispatchers                   \* calls in progress that worked on the current queue

engineVars == <<processes, messageQueue, systemHistory, totalExchanges, isRunning,
                initialDistributions, perfectMonochromeAchievable>>
driverVars == <<pc, iterationCount, lastPotentialFunction, stagnationCounter>>
clientVars == <<callResult, exitKind, dispatched, supplied, held, heldAge, dispatchers>>
vars == <<engineVars, driverVars, clientVars>>

NoSnapshot == [state |-> Null]

\* The client may call in while the engine is idle or suspended at an await.
SuspensionPoints == {"idle", "dispatched", "sleep"}

\* No call is in the middle of a synchronous stretch: other code may run.
EventLoopFree == \A k \in Drivers : pc[k] \in SuspensionPoints

\* No startConsensus() call is in progress.
Quiescent == \A k \in Drivers : pc[k] = "idle"

\* Call k may go on: run-to-completion, no other call is between two awaits.
Resumable(k) == \A j \in Drivers \ {k} : pc[j] \in SuspensionPoints

\* Array contents a snapshot's stack field shows now.
Deref(ref) == processes[ref[2]].stack

\* processes built by initializeProcesses from a distribution
NewProcesses(d) ==
  [p \in ProcessIds |-> [stack |-> d[p], wanted |-> Null, partner |-> NoPartner,
                         isDone |-> FALSE]]

\* The new process objects keep the partner of the ones they replace.
initializeProcessesKeepsPartner(d) ==
  /\ processes' = [p \in ProcessIds |->
                     [NewProcesses(d)[p] EXCEPT !.partner = processes[p].partner]]
  /\ messageQueue' = <<>>
  /\ totalExchanges' = 0
  /\ isRunning' = FALSE
  /\ systemHistory' = saveSystemState(NewProcesses(d), <<>>, 0, <<>>)

\* initializeProcesses(): new process objects and arrays, empty queue, counters
\* cleared, one snapshot saved.
initializeProcesses(d) ==
  /\ processes' = NewProcesses(d)
  /\ messageQueue' = <<>>
  /\ totalExchanges' = 0
  /\ isRunning' = FALSE
  /\ systemHistory' = saveSystemState(NewProcesses(d), <<>>, 0, <<>>)

Init ==
  /\ initialDistributions = DefaultDistributions
  /\ processes = NewProcesses(DefaultDistributions)
  /\ messageQueue = <<>>
  /\ totalExchanges = 0
  /\ isRunning = FALSE
  /\ systemHistory = saveSystemState(NewProcesses(DefaultDistributions), <<>>, 0, <<>>)
  /\ perfectMonochromeAchievable = FALSE
  /\ pc = [k \in Drivers |-> "idle"]
  /\ iterationCount = [k \in Drivers |-> 0]
  /\ lastPotentialFunction = [k \in Drivers |-> 0]
  /\ stagnationCounter = [k \in Drivers |-> 0]
  /\ callResult = "none"
  /\ exitKind = "none"
  /\ dispatched = 0
  /\ supplied = DefaultDistributions
  /\ held = NoSnapshot
  /\ heldAge = 0
  /\ dispatchers = {}

\* ------------------------------------------------------------------ reset
\* The supplied distribution is dropped in favour of the built-in one.
setCustomDistributionsIgnored(d) == DefaultDistributions

\* setCustomDistributions: the new value of initialDistributions
setCustomDistributions(d) == d

\* reset(customDistributions?), callable whenever no other code is running;
\* arguments is the call's argument list, <<>> or <<d>>.
reset(arguments) ==
  /\ EventLoopFree
  /\ initialDistributions' =
       IF Len(arguments) > 0 THEN setCustomDistributions(arguments[1])
       ELSE initialDistributions
  /\ initializeProcesses(initialDistributions')
  /\ callResult' = IF Len(arguments) > 0 THEN "reset(d)" ELSE "reset()"
  /\ exitKind' = "none"
  /\ dispatched' = 0
  /\ supplied' = IF Len(arguments) > 0 THEN arguments[1] ELSE supplied
  /\ held' = NoSnapshot
  /\ heldAge' = 0
  /\ dispatchers' = {}
  /\ UNCHANGED <<perfectMonochromeAchievable, driverVars>>

\* reset(customDistributions) by a client that awaits its runs
Reset(d) == Quiescent /\ reset(<<d>>)

\* reset() by a client that awaits its runs
ResetNoArg == Quiescent /\ reset(<<>>)

\* reset(customDistributions) while a startConsensus() call is suspended
ResetWhileSuspended(d) == ~Quiescent /\ reset(<<d>>)

\* ------------------------------------------------------------------ startConsensus
Engine == [procs |-> processes, queue |-> messageQueue]

\* The isRunning guard never fires.
NeverRunning == FALSE

\* if (this.isRunning) throw new Error('Consensus algorithm is already running')
AlreadyRunning == isRunning

RECURSIVE CheckAllFrom(_, _, _)
CheckAllFrom(st, i, perfectAchievable) ==
  IF i > NumProcesses THEN st
  ELSE CheckAllFrom(checkMonochrome(st, i, perfectAchievable), i + 1, perfectAchievable)

RECURSIVE FirstRequestsFrom(_, _)
FirstRequestsFrom(st, i) ==
  IF i > NumProcesses THEN st
  ELSE FirstRequestsFrom(IF ~st.procs[i].isDone THEN ContinueProtocol(st, i) ELSE st, i + 1)

\* for (const process of this.processes) if (!process.isDone) process.isDone = true
ForceDone(procs) == [p \in ProcessIds |-> [procs[p] EXCEPT !.isDone = TRUE]]

\* A snapshot is kept by the client over at most MaxHold iterations.
AgeSnapshot ==
  IF held = NoSnapshot THEN UNCHANGED <<held, heldAge>>
  ELSE IF heldAge >= MaxHold THEN held' = NoSnapshot /\ heldAge' = 0
  ELSE held' = held /\ heldAge' = heldAge + 1

\* A new call takes the first slot no call in progress occupies.
FreeSlot(k) == pc[k] = "idle" /\ \A j \in Drivers : pc[j] = "idle" => k <= j

\* The call up to the first evaluation of the loop condition.
StartConsensus(k) ==
  /\ EventLoopFree
  /\ FreeSlot(k)
  /\ ~AlreadyRunning
  /\ isRunning' = TRUE
  /\ iterationCount' = [iterationCount EXCEPT ![k] = 0]
  /\ lastPotentialFunction' = [lastPotentialFunction EXCEPT ![k] = MAX_SAFE_INTEGER]
  /\ stagnationCounter' = [stagnationCounter EXCEPT ![k] = 0]
  /\ perfectMonochromeAchievable' = isPerfectMonochromeAchievable(processes)
  /\ LET st == FirstRequestsFrom(CheckAllFrom(Engine, 1, perfectMonochromeAchievable'), 1)
     IN  processes' = st.procs /\ messageQueue' = st.queue
  /\ pc' = [pc EXCEPT ![k] = "loop"]
  /\ callResult' = "started"
  /\ exitKind' = "none"
  /\ UNCHANGED <<systemHistory, totalExchanges, initialDistributions, dispatched, supplied,
                 held, heldAge, dispatchers>>

\* The call throws; nothing is touched.
StartRejected ==
  /\ EventLoopFree
  /\ AlreadyRunning
  /\ callResult' = "already running"
  /\ UNCHANGED <<engineVars, driverVars, exitKind, dispatched, supplied, held, heldAge,
                 dispatchers>>

\* while (this.isRunning && !isSystemComplete(...))
LoopCondition == isRunning /\ ~isSystemComplete(processes, messageQueue)

LoopExit(k) ==
  /\ pc[k] = "loop"
  /\ ~LoopCondition
  /\ pc' = [pc EXCEPT ![k] = "final"]
  /\ exitKind' = "normal"
  /\ callResult' = "none"
  /\ UNCHANGED <<engineVars, iterationCount, lastPotentialFunction, stagnationCounter,
                 dispatched, supplied, held, heldAge, dispatchers>>

\* processNextMessage() on an empty queue
TriggerNewRequests(k) ==
  /\ pc[k] = "loop"
  /\ LoopCondition
  /\ Len(messageQueue) = 0
  /\ LET st == triggerNewRequests(Engine)
     IN  processes' = st.procs /\ messageQueue' = st.queue
  /\ pc' = [pc EXCEPT ![k] = "dispatched"]
  /\ callResult' = "none"
  /\ dispatchers' = dispatchers \cup {k}
  /\ AgeSnapshot
  /\ UNCHANGED <<systemHistory, totalExchanges, isRunning, initialDistributions,
                 perfectMonochromeAchievable, iterationCount, lastPotentialFunction,
                 stagnationCounter, exitKind, dispatched, supplied>>

\* processNextMessage(): shift the oldest message, hand it to its handler, save a
\* snapshot.  Every queued message names two existing processes.
Dispatch(k, type) ==
  /\ pc[k] = "loop"
  /\ LoopCondition
  /\ Len(messageQueue) > 0
  /\ Head(messageQueue).type = type
  /\ LET message == Head(messageQueue)
         st0 == [procs |-> processes, queue |-> Tail(messageQueue)]
         st == CASE type = "REQUEST" -> handleRequest(st0, message, perfectMonochromeAchievable)
                 [] type = "SEND" -> handleSend(st0, message, perfectMonochromeAchievable)
                 [] type = "DONE" -> handleDone(st0, message)
         count == IF type = "SEND" /\ message.color /= Null
                    THEN totalExchanges + 1 ELSE totalExchanges
     IN  /\ processes' = st.procs
         /\ messageQueue' = st.queue
         /\ totalExchanges' = count
         /\ systemHistory' = saveSystemState(st.procs, st.queue, count, systemHistory)
  /\ dispatched' = dispatched + 1
  /\ pc' = [pc EXCEPT ![k] = "dispatched"]
  /\ callResult' = "none"
  /\ dispatchers' = dispatchers \cup {k}
  /\ AgeSnapshot
  /\ UNCHANGED <<isRunning, initialDistributions, perfectMonochromeAchievable,
                 iterationCount, lastPotentialFunction, stagnationCounter, exitKind,
                 supplied>>

DispatchRequest(k) == Dispatch(k, "REQUEST")
DispatchSend(k) == Dispatch(k, "SEND")
DispatchDone(k) == Dispatch(k, "DONE")

\* iterationCount++ when no periodic check is due
CountIteration(k) ==
  /\ pc[k] = "dispatched"
  /\ Resumable(k)
  /\ (iterationCount[k] + 1) % CheckPeriod /= 0
  /\ iterationCount' = [iterationCount EXCEPT ![k] = @ + 1]
  /\ pc' = [pc EXCEPT ![k] = "sleep"]
  /\ callResult' = "none"
  /\ UNCHANGED <<engineVars, lastPotentialFunction, stagnationCounter, exitKind,
                 dispatched, supplied, held, heldAge, dispatchers>>

\* Processes after the periodic conflict check.
AfterConflictCheck ==
  IF detectColorConflicts(processes) THEN resolveColorConflicts(processes) ELSE processes

\* One check without improvement is enough to stop.
StagnatedAtOnce(k) ==
  calculatePotentialFunction(AfterConflictCheck) >= lastPotentialFunction[k]

Stagnated(k) ==
  /\ calculatePotentialFunction(AfterConflictCheck) >= lastPotentialFunction[k]
  /\ stagnationCounter[k] + 1 >= StagnationLimit

\* iterationCount++ and the periodic check, the loop goes on
PeriodicCheck(k) ==
  /\ pc[k] = "dispatched"
  /\ Resumable(k)
  /\ (iterationCount[k] + 1) % CheckPeriod = 0
  /\ ~Stagnated(k)
  /\ iterationCount' = [iterationCount EXCEPT ![k] = @ + 1]
  /\ processes' = AfterConflictCheck
  /\ stagnationCounter' =
       [stagnationCounter EXCEPT ![k] =
          IF calculatePotentialFunction(AfterConflictCheck) >= lastPotentialFunction[k]
            THEN @ + 1 ELSE 0]
  /\ lastPotentialFunction' =
       [lastPotentialFunction EXCEPT ![k] = calculatePotentialFunction(AfterConflictCheck)]
  /\ pc' = [pc EXCEPT ![k] = "sleep"]
  /\ callResult' = "none"
  /\ UNCHANGED <<messageQueue, systemHistory, totalExchanges, isRunning,
                 initialDistributions, perfectMonochromeAchievable, exitKind, dispatched,
                 supplied, held, heldAge, dispatchers>>

\* iterationCount++ and the periodic check finds stagnation: break
StagnationStop(k) ==
  /\ pc[k] = "dispatched"
  /\ Resumable(k)
  /\ (iterationCount[k] + 1) % CheckPeriod = 0
  /\ Stagnated(k)
  /\ iterationCount' = [iterationCount EXCEPT ![k] = @ + 1]
  /\ processes' = ForceDone(AfterConflictCheck)
  /\ stagnationCounter' = [stagnationCounter EXCEPT ![k] = @ + 1]
  /\ pc' = [pc EXCEPT ![k] = "final"]
  /\ exitKind' = "stagnation"
  /\ callResult' = "none"
  /\ UNCHANGED <<messageQueue, systemHistory, totalExchanges, isRunning,
                 initialDistributions, perfectMonochromeAchievable, lastPotentialFunction,
                 dispatched, supplied, held, heldAge, dispatchers>>

\* after sleep(10): iterationCount <= 200, back to the loop condition
AfterSleep(k) ==
  /\ pc[k] = "sleep"
  /\ Resumable(k)
  /\ ~(iterationCount[k] > IterationCeiling)
  /\ pc' = [pc EXCEPT ![k] = "loop"]
  /\ callResult' = "none"
  /\ UNCHANGED <<engineVars, iterationCount, lastPotentialFunction, stagnationCounter,
                 exitKind, dispatched, supplied, held, heldAge, dispatchers>>

\* after sleep(10): iterationCount > 200, force resolution and break
ForceResolution(k) ==
  /\ pc[k] = "sleep"
  /\ Resumable(k)
  /\ iterationCount[k] > IterationCeiling
  /\ processes' = ForceDone(resolveColorConflicts(processes))
  /\ pc' = [pc EXCEPT ![k] = "final"]
  /\ exitKind' = "ceiling"
  /\ callResult' = "none"
  /\ UNCHANGED <<messageQueue, systemHistory, totalExchanges, isRunning,
                 initialDistributions, perfectMonochromeAchievable, iterationCount,
                 lastPotentialFunction, stagnationCounter, dispatched, supplied, held,
                 heldAge, dispatchers>>

\* The final checkMonochrome pass, isRunning = false, the call returns.
FinalCheck(k) ==
  /\ pc[k] = "final"
  /\ LET st == CheckAllFrom(Engine, 1, perfectMonochromeAchievable)
     IN  processes' = st.procs /\ messageQueue' = st.queue
  /\ isRunning' = FALSE
  /\ pc' = [pc EXCEPT ![k] = "idle"]
  /\ iterationCount' = [iterationCount EXCEPT ![k] = 0]
  /\ lastPotentialFunction' = [lastPotentialFunction EXCEPT ![k] = 0]
  /\ stagnationCounter' = [stagnationCounter EXCEPT ![k] = 0]
  /\ callResult' = "none"
  /\ dispatchers' = dispatchers \ {k}
  /\ UNCHANGED <<systemHistory, totalExchanges, initialDistributions,
                 perfectMonochromeAchievable, exitKind, dispatched, supplied, held, heldAge>>

\* getSystemState() called by a client; stacksAtCapture records what the
\* snapshot's stacks showed when it was produced.
GetSystemState ==
  /\ EventLoopFree
  /\ held' = [state |-> createSystemState(processes, messageQueue, totalExchanges),
              stacksAtCapture |-> [p \in ProcessIds |-> processes[p].stack]]
  /\ heldAge' = 0
  /\ callResult' = "state"
  /\ UNCHANGED <<engineVars, driverVars, exitKind, dispatched, supplied, dispatchers>>

\* A client that awaits every run before it resets.
Next ==
  \/ \E d \in Distributions : Reset(d)
  \/ ResetNoArg
  \/ \E k \in Drivers : StartConsensus(k)
  \/ StartRejected
  \/ \E k \in Drivers : LoopExit(k)
  \/ \E k \in Drivers : TriggerNewRequests(k)
  \/ \E k \in Drivers : DispatchRequest(k)
  \/ \E k \in Drivers : DispatchSend(k)
  \/ \E k \in Drivers : DispatchDone(k)
  \/ \E k \in Drivers : CountIteration(k)
  \/ \E k \in Drivers : PeriodicCheck(k)
  \/ \E k \in Drivers : StagnationStop(k)
  \/ \E k \in Drivers : AfterSleep(k)
  \/ \E k \in Drivers : ForceResolution(k)
  \/ \E k \in Drivers : FinalCheck(k)
  \/ GetSystemState

Spec == Init /\ [][Next]_vars

\* ------------------------------------------------------------------ calls at the awaits
\* Distributions a client resets to while a call is suspended.
InterleavedDistributions ==
  { DefaultDistributions,
    << <<"R">>, <<"G">>, <<"B">> >>,
    << <<"R","G">>, <<"B","R">>, <<"G","B">> >>,
    << <<>>, <<"B">>, <<"R","G">> >> }

\* Sleeps call k has come back from.
SleepsDone(k) == IF pc[k] = "sleep" THEN iterationCount[k] - 1 ELSE iterationCount[k]

\* A reset that cuts into a run comes before any call in progress has come
\* back from more than MaxCancelAt sleeps.
EarlyInRun == \A k \in Drivers : SleepsDone(k) <= MaxCancelAt

\* A client that does not await its runs: reset() and startConsensus() also
\* come while a call is suspended at processNextMessage() or sleep().
NextInterleaved ==
  \/ \E d \in InterleavedDistributions \cup LongRunDistributions : Reset(d)
  \/ ResetNoArg
  \/ \E d \in InterleavedDistributions : EarlyInRun /\ ResetWhileSuspended(d)
  \/ \E k \in Drivers : StartConsensus(k)
  \/ \E k \in Drivers : LoopExit(k)
  \/ \E k \in Drivers : TriggerNewRequests(k)
  \/ \E k \in Drivers : DispatchRequest(k)
  \/ \E k \in Drivers : DispatchSend(k)
  \/ \E k \in Drivers : DispatchDone(k)
  \/ \E k \in Drivers : CountIteration(k)
  \/ \E k \in Drivers : PeriodicCheck(k)
  \/ \E k \in Drivers : StagnationStop(k)
  \/ \E k \in Drivers : AfterSleep(k)
  \/ \E k \in Drivers : ForceResolution(k)
  \/ \E k \in Drivers : FinalCheck(k)

SpecInterleaved == Init /\ [][NextInterleaved]_vars

\* ------------------------------------------------------------------ claims
ResetResults == {"reset(d)", "reset()"}

\* startConsensus() has returned and nothing was reset since.
Returned == Quiescent /\ exitKind /= "none"

\* Balls of colour c in the process stacks.
StackCount(c) ==
  Count(processes[1].stack, c) + Count(processes[2].stack, c) + Count(processes[3].stack, c)

\* Queued SEND messages that carry colour c.
InFlight(c) ==
  Cardinality({i \in DOMAIN messageQueue :
                 messageQueue[i].type = "SEND" /\ messageQueue[i].color = c})

\* Balls of colour c in the configured distribution.
InitialCount(c) ==
  Count(initialDistributions[1], c) + Count(initialDistributions[2], c)
    + Count(initialDistributions[3], c)

\* C1: in every reachable state, for every colour, the balls in the stacks plus
\* the queued SEND messages of that colour equal the balls of that colour in
\* the initial distribution.
C1_Conservation ==
  \A c \in Colors : StackCount(c) + InFlight(c) = InitialCount(c)

\* A run is under way, balls were exchanged and one is in flight.
C1_Witness ==
  /\ pc[1] = "sleep"
  /\ totalExchanges > 0
  /\ \E c \in Colors : InFlight(c) > 0

\* C2: startConsensus() returns after at most 201 iterations and the snapshot
\* taken right after it returns has isComplete = true, however the loop ended.
C2_CompleteOnReturn ==
  (\E p \in ProcessIds : initialDistributions[p] /= <<>>) =>
    /\ \A k \in Drivers : iterationCount[k] <= IterationCeiling + 1
    /\ Returned => createSystemState(processes, messageQueue, totalExchanges).isComplete

\* C3: when startConsensus() returns, the per-colour counts over the stacks
\* alone equal the initial counts: no ball is left in a queued SEND.
C3_StacksHoldAllOnReturn ==
  Returned => \A c \in Colors : StackCount(c) = InitialCount(c)

\* C4: startConsensus() called while a run is in progress fails with 'already
\* running' and changes neither the engine state nor the run in progress.
C4_StartRejected ==
  [][(isRunning /\ callResult' \in {"started", "already running"})
       => (callResult' = "already running" /\ UNCHANGED <<engineVars, driverVars>>)]_vars

\* A start call was rejected in the middle of a run.
C4_Witness ==
  /\ callResult = "already running"
  /\ pc[1] = "sleep"
  /\ iterationCount[1] > 1
  /\ messageQueue /= <<>>

\* C5: between two resets a process that is done stays done.
C5_DoneMonotonic ==
  [][callResult' \in ResetResults
       \/ \A p \in ProcessIds : processes[p].isDone => processes'[p].isDone]_vars

\* Some process is done while the run goes on with others that are not.
C5_Witness ==
  /\ pc[1] = "sleep"
  /\ \E p, q \in ProcessIds : processes[p].isDone /\ ~processes[q].isDone
  /\ messageQueue /= <<>>

\* C6: a snapshot returned by getSystemState() is a point-in-time copy: later
\* dispatches change neither its stacks nor its wanted colours, partners, done
\* flags or pending-message list.  The copied fields are part of the held
\* value; the stacks are what the snapshot's stack references show.
C6_SnapshotIsCopy ==
  held /= NoSnapshot =>
    \A p \in ProcessIds : Deref(held.state.processes[p].stack) = held.stacksAtCapture[p]

\* C7: the history holds one snapshot after reset(), grows by one per
\* dispatched message and keeps its earlier snapshots in place, so its length
\* is 1 plus the number of messages dispatched since the last reset.
C7_History ==
  /\ [](Len(systemHistory) = 1 + dispatched)
  /\ [][callResult' \in ResetResults
          \/ /\ Len(systemHistory') >= Len(systemHistory)
             /\ SubSeq(systemHistory', 1, Len(systemHistory)) = systemHistory]_vars

\* Several messages were dispatched in the current run.
C7_Witness ==
  /\ pc[1] = "sleep"
  /\ dispatched >= 3
  /\ Len(systemHistory) >= 4

C9_NotCompleteAfterReset ==
  callResult \in ResetResults =>
    /\ ~createSystemState(processes, messageQueue, totalExchanges).isComplete
    /\ \A p \in ProcessIds : ~processes[p].isDone

TotalIn(d, c) == Count(d[1], c) + Count(d[2], c) + Count(d[3], c)

\* All three colours occur, each the same number of times.
Balanced(d) ==
  \A c \in Colors : TotalIn(d, c) > 0 /\ \A c2 \in Colors : TotalIn(d, c) = TotalIn(d, c2)

\* The most frequent colour of a non-empty stack, the one met first among equals.
FirstMostFrequent(stack) ==
  CHOOSE c \in Range(stack) :
    /\ \A c2 \in Range(stack) : Count(stack, c2) <= Count(stack, c)
    /\ \A c2 \in Range(stack) :
         Count(stack, c2) = Count(stack, c) => FirstIndex(stack, c) <= FirstIndex(stack, c2)

\* The stacks of d cannot be improved: monochrome stacks if d is balanced,
\* otherwise every non-empty stack already holds as many balls of its most
\* frequent colour as its size and that colour's total allow.
AlreadyArranged(d) ==
  IF Balanced(d)
    THEN \A p \in ProcessIds : Cardinality(Range(d[p])) <= 1
    ELSE \A p \in ProcessIds :
           d[p] /= <<>> =>
             LET c == FirstMostFrequent(d[p])
             IN  Count(d[p], c) >= TotalIn(d, c) \/ Count(d[p], c) >= Len(d[p])

\* C9 amended: right after reset() no process is done, and the snapshot
\* reports isComplete = true exactly when the configured stacks are already
\* arranged (false otherwise, as for the default distribution).
C9_CompleteAfterResetIffArranged ==
  callResult \in ResetResults =>
    /\ \A p \in ProcessIds : ~processes[p].isDone
    /\ createSystemState(processes, messageQueue, totalExchanges).isComplete
         <=> AlreadyArranged(supplied)

\* reset() left a state with balls in at least two stacks that already counts
\* as complete.
C9_Witness ==
  /\ callResult \in ResetResults
  /\ createSystemState(processes, messageQueue, totalExchanges).isComplete
  /\ \E p, q \in ProcessIds : p /= q /\ processes[p].stack /= <<>> /\ processes[q].stack /= <<>>

\* Messages a step appended to the queue (the head is gone if it was dispatched).
Enqueued ==
  LET kept == IF dispatched' = dispatched + 1 THEN Len(messageQueue) - 1 ELSE Len(messageQueue)
  IN  SubSeq(messageQueue', kept + 1, Len(messageQueue'))

\* C10: every SEND carries exactly one colour and stands for exactly one ball:
\* in every step a stack changes by one ball of colour c more for the SEND(c)
\* dispatched to its process and one ball of colour c less for each SEND(c)
\* its process enqueued; a REQUEST or a DONE adds no ball to any stack.
C10_OneBallPerSend ==
  /\ [](\A i \in DOMAIN messageQueue :
          messageQueue[i].type = "SEND" => messageQueue[i].color \in Colors)
  /\ [][callResult' \in ResetResults
          \/ \A p \in ProcessIds, c \in Colors :
               LET delivered ==
                     IF /\ dispatched' = dispatched + 1
                        /\ Head(messageQueue).type = "SEND"
                        /\ Head(messageQueue).to = p
                        /\ Head(messageQueue).color = c
                       THEN 1 ELSE 0
                   sent == Cardinality({i \in DOMAIN Enqueued :
                                          /\ Enqueued[i].type = "SEND"
                                          /\ Enqueued[i].from = p
                                          /\ Enqueued[i].color = c})
               IN  /\ Count(processes'[p].stack, c)
                        = Count(processes[p].stack, c) + delivered - sent
                   /\ sent <= 1]_vars

\* A SEND was just dispatched and another ball is on its way.
C10_Witness ==
  /\ pc[1] = "dispatched"
  /\ totalExchanges > 0
  /\ \E i \in DOMAIN messageQueue : messageQueue[i].type = "SEND"

\* C11: dispatching SEND(c) to R appends c to R's stack and adds exactly one to
\* totalExchanges, whether or not R is done; no other step changes the counter
\* and a reset clears it, so it counts the SENDs dispatched since the last reset.
C11_SendCountsOnce ==
  /\ [](callResult \in ResetResults => totalExchanges = 0)
  /\ [][callResult' \in ResetResults
          \/ IF dispatched' = dispatched + 1 /\ Head(messageQueue).type = "SEND"
               THEN /\ totalExchanges' = totalExchanges + 1
                    /\ processes'[Head(messageQueue).to].stack
                         = Append(processes[Head(messageQueue).to].stack,
                                  Head(messageQueue).color)
               ELSE totalExchanges' = totalExchanges]_vars

\* The history shows a SEND that was dispatched to a process already done.
C11_Witness ==
  \E n \in 2..Len(systemHistory) :
    LET before == systemHistory[n - 1]
        after == systemHistory[n]
    IN  /\ before.messages /= <<>>
        /\ Head(before.messages).type = "SEND"
        /\ before.processes[Head(before.messages).to].isDone
        /\ after.totalExchanges = before.totalExchanges + 1

\* C12: during a run the potential never increases from one state to the
\* next; no step of a run leaves it larger than it was.
C12_PotentialNeverIncreases ==
  [][callResult' \in ResetResults
       \/ calculatePotentialFunction(processes') <= calculatePotentialFunction(processes)]_vars

\* Balls held in the stacks.
BallsInStacks == Len(processes[1].stack) + Len(processes[2].stack) + Len(processes[3].stack)

\* C13: the potential is at least 0 and, when some stack is non-empty,
\* strictly less than the number of balls held in the stacks.
C13_PotentialBounds ==
  /\ calculatePotentialFunction(processes) >= 0
  /\ BallsInStacks > 0 => calculatePotentialFunction(processes) < BallsInStacks

\* A run is under way with mixed stacks and a ball in flight.
C13_Witness ==
  /\ pc[1] = "sleep"
  /\ calculatePotentialFunction(processes) > 0
  /\ \E i \in DOMAIN messageQueue : messageQueue[i].type = "SEND"
  /\ \E p \in ProcessIds : processes[p].stack = <<>>

\* C14: when a perfect single-colour outcome is feasible, getSystemState()
\* reports isComplete = true only if every stack holds at most one distinct
\* colour.
C14_CompleteMeansMonochrome ==
  (isPerfectMonochromeAchievable(processes)
     /\ createSystemState(processes, messageQueue, totalExchanges).isComplete)
    => \A p \in ProcessIds : Cardinality(Range(processes[p].stack)) <= 1

\* C15: a run started from the default distribution ends with isComplete =
\* true, every process done and holding exactly 10 balls of a single colour,
\* the three colours pairwise distinct, potential 0 and totalExchanges > 0.
C15_DefaultRunConverges ==
  (initialDistributions = DefaultDistributions /\ Returned) =>
    /\ createSystemState(processes, messageQueue, totalExchanges).isComplete
    /\ \A p \in ProcessIds :
         /\ processes[p].isDone
         /\ Len(processes[p].stack) = 10
         /\ Cardinality(Range(processes[p].stack)) = 1
    /\ \A p, q \in ProcessIds :
         p /= q => Range(processes[p].stack) /= Range(processes[q].stack)
    /\ calculatePotentialFunction(processes) = 0
    /\ totalExchanges > 0

\* The run from the default distribution has returned.
C15_Witness ==
  /\ initialDistributions = DefaultDistributions
  /\ Returned
  /\ dispatched > 0

\* startConsensus() was called since the last reset and passed its guard.
Started == ~Quiescent \/ Returned

\* C16: if every initial stack holds at most one distinct colour, the initial
\* completion check marks every process done, no REQUEST or SEND is ever
\* enqueued, totalExchanges stays 0 and every stack is unchanged to the end of
\* the run.
C16_MonochromeStartStaysPut ==
  (\A p \in ProcessIds : Cardinality(Range(initialDistributions[p])) <= 1) =>
    /\ Started => \A p \in ProcessIds : processes[p].isDone
    /\ \A i \in DOMAIN messageQueue : messageQueue[i].type = "DONE"
    /\ totalExchanges = 0
    /\ \A p \in ProcessIds : processes[p].stack = initialDistributions[p]

\* A run over single-colour stacks, one of them with two balls, has returned
\* after dispatching messages.
C16_Witness ==
  /\ \A p \in ProcessIds : Cardinality(Range(initialDistributions[p])) <= 1
  /\ \E p \in ProcessIds : Len(initialDistributions[p]) = 2
  /\ Returned
  /\ dispatched > 0

FreshProcesses(d) ==
  [p \in ProcessIds |-> [stack |-> d[p], wanted |-> Null, partner |-> NoPartner,
                         isDone |-> FALSE]]

\* What the first startConsensus() after a reset leaves, computed from the
\* distribution alone.
FreshRun(d) ==
  FirstRequestsFrom(
    CheckAllFrom([procs |-> FreshProcesses(d), queue |-> <<>>], 1,
                 isPerfectMonochromeAchievable(FreshProcesses(d))), 1)

C19_ResetCancelsRun ==
  [][\A k \in Drivers :
       (pc[k] /= "idle" /\ ~isRunning /\ pc'[k] /= pc[k])
         => UNCHANGED <<processes, messageQueue, systemHistory, totalExchanges>>]_vars

\* C20: at most one driver loop is ever active; no two startConsensus() calls
\* in progress have dispatched from the same queue.
C20_SingleDriverLoop ==
  Cardinality(dispatchers) <= 1

\* The step dispatches a message of the given type.
Dispatches(type) ==
  /\ dispatched' = dispatched + 1
  /\ messageQueue /= <<>>
  /\ Head(messageQueue).type = type

\* Messages of a type in a queue.
OfType(queue, type) == SelectSeq(queue, LAMBDA m : m.type = type)

\* A stack without its first ball of a colour it holds.
WithoutFirst(stack, color) ==
  LET first == CHOOSE i \in DOMAIN stack :
                 stack[i] = color /\ \A j \in 1..(i - 1) : stack[j] /= color
  IN  [i \in 1..(Len(stack) - 1) |-> IF i < first THEN stack[i] ELSE stack[i + 1]]

\* C21: dispatching REQUEST(c) from S to R removes from R's stack the first
\* ball equal to c exactly when R holds a c ball and c differs from R.wanted,
\* and then enqueues exactly one SEND(c) from R to S; otherwise R's stack is
\* unchanged and no SEND is enqueued.  No other stack changes.
C21_RequestGivesUnwanted ==
  [][Dispatches("REQUEST") =>
       LET m == Head(messageQueue)
           r == m.to
           gives == m.color \in Range(processes[r].stack) /\ m.color /= processes[r].wanted
       IN  /\ \A p \in ProcessIds \ {r} : processes'[p].stack = processes[p].stack
           /\ IF gives
                THEN /\ processes'[r].stack = WithoutFirst(processes[r].stack, m.color)
                     /\ OfType(messageQueue', "SEND")
                          = Append(OfType(Tail(messageQueue), "SEND"),
                                   Message("SEND", r, m.from, m.color))
              ELSE /\ processes'[r].stack = processes[r].stack
                   /\ OfType(messageQueue', "SEND") = OfType(Tail(messageQueue), "SEND")]_vars

\* The last dispatched message was a REQUEST that was answered with a SEND,
\* and an earlier one was refused.
C21_Witness ==
  /\ Len(systemHistory) >= 3
  /\ LET n == Len(systemHistory)
         before == systemHistory[n - 1].messages
         after == systemHistory[n].messages
     IN  /\ before /= <<>>
         /\ Head(before).type = "REQUEST"
         /\ Len(OfType(after, "SEND")) = Len(OfType(Tail(before), "SEND")) + 1
  /\ \E n \in 2..Len(systemHistory) :
       LET before == systemHistory[n - 1].messages
           after == systemHistory[n].messages
       IN  /\ before /= <<>>
           /\ Head(before).type = "REQUEST"
           /\ Len(OfType(after, "SEND")) = Len(OfType(Tail(before), "SEND"))

\* Messages the step appends to the queue: what follows the messages that
\* were queued before it and were not dispatched by it.
Enqueues ==
  LET kept == IF dispatched' = dispatched + 1 THEN Len(messageQueue) - 1
              ELSE Len(messageQueue)
  IN  SubSeq(messageQueue', kept + 1, Len(messageQueue'))

\* C22: every REQUEST, when it is enqueued, comes from a process that is not
\* done, carries that process's current wanted colour and is addressed to a
\* different process that is not done.
C22_RequestWellFormed ==
  [][callResult' \in ResetResults
       \/ \A i \in DOMAIN Enqueues :
            LET m == Enqueues[i]
            IN  m.type = "REQUEST" =>
                  /\ ~processes'[m.from].isDone
                  /\ m.color = processes'[m.from].wanted
                  /\ m.color \in Colors
                  /\ m.to /= m.from
                  /\ ~processes'[m.to].isDone]_vars

\* A REQUEST was just enqueued by a handler while another process is done.
C22_Witness ==
  /\ pc[1] = "dispatched"
  /\ dispatched > 0
  /\ messageQueue /= <<>>
  /\ messageQueue[Len(messageQueue)].type = "REQUEST"
  /\ Len(systemHistory[Len(systemHistory) - 1].messages) <= Len(messageQueue)
  /\ \E p \in ProcessIds : processes[p].isDone

\* q was not done at the moment the step marked p done: the loops that mark
\* processes done visit them in the order of their ids.
NotDoneWhenMarked(p, q) ==
  /\ q /= p
  /\ ~processes[q].isDone
  /\ processes'[q].isDone => q > p

\* C23: whenever a process's done flag changes from false to true, by a
\* completion check, the stagnation fallback or the iteration ceiling, a DONE
\* message from that process is enqueued to every other process that is not
\* done at that moment.
C23_DoneIsBroadcast ==
  [][callResult' \in ResetResults
       \/ \A p \in ProcessIds :
            (~processes[p].isDone /\ processes'[p].isDone) =>
              \A q \in ProcessIds :
                NotDoneWhenMarked(p, q) =>
                  \E i \in DOMAIN Enqueues : Enqueues[i] = Message("DONE", p, q, Null)]_vars

\* C24: dispatching a DONE message sets the done flag of its sender and
\* changes nothing else: no stack, wanted colour, partner or exchange counter
\* changes, the recipient is untouched, the queue only loses the dispatched
\* message, and handling the same DONE once more changes nothing.
C24_DoneOnlyMarksSender ==
  [][Dispatches("DONE") =>
       LET m == Head(messageQueue)
       IN  /\ processes' = [processes EXCEPT ![m.from].isDone = TRUE]
           /\ messageQueue' = Tail(messageQueue)
           /\ totalExchanges' = totalExchanges
           /\ handleDone([procs |-> processes', queue |-> messageQueue'], m)
                = [procs |-> processes', queue |-> messageQueue']]_vars

\* The last dispatched message was a DONE addressed to a process that is
\* still not done.
C24_Witness ==
  /\ pc[1] = "dispatched"
  /\ Len(systemHistory) >= 2
  /\ LET before == systemHistory[Len(systemHistory) - 1].messages
     IN  /\ before /= <<>>
         /\ Head(before).type = "DONE"
         /\ ~processes[Head(before).to].isDone
         /\ messageQueue = Tail(before)

\* C25: once a process is done it halts: it enqueues no further REQUEST and
\* its stack never loses a ball; a REQUEST dispatched to a process that is
\* already done removes nothing from its stack.
C25_DoneProcessHalts ==
  [][callResult' \in ResetResults
       \/ \A p \in ProcessIds :
            processes[p].isDone =>
              /\ Len(processes'[p].stack) >= Len(processes[p].stack)
              /\ SubSeq(processes'[p].stack, 1, Len(processes[p].stack)) = processes[p].stack
              /\ \A i \in DOMAIN Enqueues :
                   ~(Enqueues[i].type = "REQUEST" /\ Enqueues[i].from = p)]_vars

\* C26: messages are dispatched in the order in which they were enqueued.
\* A dispatch takes the oldest queued message, every other queued message
\* keeps its place, and new messages go behind the ones already queued.
C26_Fifo ==
  [][callResult' \in ResetResults
       \/ LET kept == IF dispatched' = dispatched + 1 THEN Tail(messageQueue)
                       ELSE messageQueue
          IN  /\ dispatched' = dispatched + 1 => messageQueue /= <<>>
              /\ Len(messageQueue') >= Len(kept)
              /\ SubSeq(messageQueue', 1, Len(kept)) = kept]_vars

\* A dispatch has just left older messages queued and put a new one behind
\* them.
C26_Witness ==
  /\ pc[1] = "dispatched"
  /\ dispatched > 1
  /\ Len(systemHistory[Len(systemHistory) - 1].messages) >= 3
  /\ Len(messageQueue) >= Len(systemHistory[Len(systemHistory) - 1].messages)
  /\ messageQueue = systemHistory[Len(systemHistory)].messages

\* The colour with the highest count in a non-empty stack, the process's
\* colour priority order deciding between colours of equal count.
MostFrequentByPriority(p, stack) ==
  CHOOSE c \in Range(stack) :
    \A d \in Range(stack) :
      \/ Count(stack, c) > Count(stack, d)
      \/ /\ Count(stack, c) = Count(stack, d)
         /\ getColorPriorityForProcess(p, c) <= getColorPriorityForProcess(p, d)

\* C27: after computeWantedColor has run on a process with a non-empty stack,
\* its wanted colour is a colour with the highest count in its stack, ties
\* broken by the process's colour priority order.  computeWantedColor runs on
\* every process left active by the initial check of startConsensus() and on
\* every process that enqueues a REQUEST.
C27_WantedIsMostFrequent ==
  [][/\ callResult' = "started" =>
          \A p \in ProcessIds :
            (~processes'[p].isDone /\ processes'[p].stack /= <<>>) =>
              processes'[p].wanted = MostFrequentByPriority(p, processes'[p].stack)
     /\ callResult' \notin ResetResults =>
          \A i \in DOMAIN Enqueues :
            Enqueues[i].type = "REQUEST" =>
              Enqueues[i].color
                = MostFrequentByPriority(Enqueues[i].from,
                                         processes'[Enqueues[i].from].stack)]_vars

\* The step runs a resolveColorConflicts pass: a periodic check that detects
\* a conflict, or the forced resolution at the iteration ceiling.
ResolvePass ==
  \/ \E k \in Drivers :
       /\ iterationCount'[k] = iterationCount[k] + 1
       /\ (iterationCount[k] + 1) % CheckPeriod = 0
       /\ detectColorConflicts(processes)
  \/ exitKind' = "ceiling" /\ exitKind /= "ceiling"

\* Not-done processes that want a colour when the pass starts.
ClaimantsOf(c) == {p \in ProcessIds : processes[p].wanted = c /\ ~processes[p].isDone}

\* The claimant with the best priority rank for the colour.
WinnerOf(c) ==
  CHOOSE p \in ClaimantsOf(c) :
    \A q \in ClaimantsOf(c) :
      getColorPriorityForProcess(p, c) <= getColorPriorityForProcess(q, c)

\* Colours a process holds besides c.
OtherColors(p, c) == Range(processes[p].stack) \ {c}

\* C28: in one resolveColorConflicts pass, for each colour wanted by two or
\* more not-done processes the claimant with the best priority rank keeps it
\* and every other claimant that holds another colour gets the most frequent
\* of its other colours as wanted; two processes that wanted the same colour
\* end the pass with distinct wanted colours unless the loser holds only that
\* colour.  No stack is changed by the pass.
C28_ResolvePass ==
  [][ResolvePass =>
       /\ \A p \in ProcessIds : processes'[p].stack = processes[p].stack
       /\ \A c \in Colors :
            Cardinality(ClaimantsOf(c)) >= 2 =>
              /\ processes'[WinnerOf(c)].wanted = c
              /\ \A l \in ClaimantsOf(c) \ {WinnerOf(c)} :
                   IF OtherColors(l, c) = {} THEN processes'[l].wanted = c
                   ELSE /\ processes'[l].wanted \in OtherColors(l, c)
                        /\ \A d \in OtherColors(l, c) :
                             Count(processes[l].stack, processes'[l].wanted)
                               >= Count(processes[l].stack, d)
              /\ \A p, q \in ClaimantsOf(c) :
                   p /= q =>
                     \/ processes'[p].wanted /= processes'[q].wanted
                     \/ \E l \in {p, q} \ {WinnerOf(c)} : OtherColors(l, c) = {}]_vars

\* C29: after one resolveColorConflicts pass no colour is wanted by two or
\* more of the processes that were not done when the pass ran, except where a
\* losing claimant holds no other colour.
C29_NoConflictAfterPass ==
  [][ResolvePass =>
       \A c \in Colors :
         LET after == {p \in ProcessIds : ~processes[p].isDone /\ processes'[p].wanted = c}
         IN  \/ Cardinality(after) <= 1
             \/ \E l \in after : processes[l].wanted = c /\ OtherColors(l, c) = {}]_vars

\* The step dispatches a REQUEST or SEND whose recipient r goes on with the
\* protocol: it recomputes wanted, chooses a partner and sends a REQUEST.
Continues(r) ==
  /\ Dispatches("REQUEST") \/ Dispatches("SEND")
  /\ Head(messageQueue).to = r
  /\ ~processes'[r].isDone

\* The processes choosePartner(r) looks at, as they are after the step.
CandidatesOf(r) == {q \in ProcessIds \ {r} : ~processes'[q].isDone}

ScoreOf(r, q) == calculatePartnerScore(processes'[r], processes'[q])

Least(S) == CHOOSE x \in S : \A y \in S : x <= y

\* The candidate after the partner r had before the step, cyclically.
RoundRobinOf(r) ==
  LET later == {q \in CandidatesOf(r) : q > processes[r].partner}
  IN  IF processes[r].partner \in CandidatesOf(r) /\ later /= {}
        THEN Least(later) ELSE Least(CandidatesOf(r))

TotalCount == StackCount("R") + StackCount("G") + StackCount("B")

\* n times in a row, a share of `per` balls can be taken from the colour that
\* has the most balls left.
RECURSIVE TakesSucceed(_, _, _)
TakesSucceed(left, per, n) ==
  IF n = 0 THEN TRUE
  ELSE LET most == CHOOSE c \in Colors : \A d \in Colors : left[c] >= left[d]
       IN  /\ left[most] >= per
           /\ TakesSucceed([left EXCEPT ![most] = @ - per], per, n - 1)

\* The three conditions on the balls now in the stacks.
AchievableByCounts ==
  /\ Cardinality({c \in Colors : StackCount(c) > 0}) >= NumProcesses
  /\ TotalCount % NumProcesses = 0
  /\ TakesSucceed([c \in Colors |-> StackCount(c)], TotalCount \div NumProcesses,
                  NumProcesses)

\* C31: isPerfectMonochromeAchievable returns true exactly when the number of
\* colours present in the stacks is at least the number of processes, the
\* total token count is divisible by the number of processes, and taking
\* total/processCount tokens from a single colour (largest counts first)
\* succeeds once for every process.  startConsensus() stores that value.
C31_AchievableIsGreedy ==
  /\ [](isPerfectMonochromeAchievable(processes) = AchievableByCounts)
  /\ [][isRunning' /\ ~isRunning =>
          perfectMonochromeAchievable' = AchievableByCounts]_vars

\* A run has started on stacks with three colours and a total divisible by
\* three, and the greedy assignment failed.
C31_Witness ==
  /\ isRunning
  /\ dispatched = 0
  /\ \A c \in Colors : StackCount(c) > 0
  /\ TotalCount % NumProcesses = 0
  /\ ~perfectMonochromeAchievable
  /\ \E p \in ProcessIds : ~processes[p].isDone

\* Colours with at least one ball in the stacks.
PresentColors == {c \in Colors : StackCount(c) > 0}

\* C37: isPerfectMonochromeAchievable returns true if and only if the number
\* of distinct colours present equals the number of processes and every
\* present colour has exactly total/processCount tokens; in particular it is
\* false whenever there are fewer colours than processes, even if every
\* process could still end up monochrome.
C37_AchievableIsEqualShares ==
  /\ isPerfectMonochromeAchievable(processes) =
       (/\ Cardinality(PresentColors) = NumProcesses
        /\ \A c \in PresentColors : StackCount(c) * NumProcesses = TotalCount)
  /\ Cardinality(PresentColors) < NumProcesses => ~isPerfectMonochromeAchievable(processes)
  /\ Started /\ dispatched = 0 =>
       perfectMonochromeAchievable =
         (\A c \in Colors : StackCount(c) > 0 /\ StackCount(c) * NumProcesses = TotalCount)

\* A run has started on stacks that are each of one colour, with two colours
\* in all, and the outcome was judged not achievable.
C37_Witness ==
  /\ isRunning
  /\ dispatched = 0
  /\ Cardinality(PresentColors) = 2
  /\ \A p \in ProcessIds : Cardinality(Range(processes[p].stack)) <= 1
  /\ ~perfectMonochromeAchievable

\* Other not-done processes that hold a ball.
ActiveHolders(procs, p) ==
  {q \in ProcessIds \ {p} : ~procs[q].isDone /\ procs[q].stack /= <<>>}

\* The cases in which the completion check takes process p as finished.
DoneCase(procs, p, feasible) ==
  LET stack == procs[p].stack
      own == DominantColor(stack)
  IN  \/ stack = <<>>
      \/ stack /= <<>> /\ feasible /\ Cardinality(Range(stack)) = 1
      \/ /\ stack /= <<>>
         /\ ~feasible
         /\ \A q \in ActiveHolders(procs, p) :
              own \in Range(procs[q].stack) => DominantColor(procs[q].stack) = own
         /\ \A q \in ActiveHolders(procs, p) :
              DominantColor(procs[q].stack) \in Range(stack) =>
                DominantColor(procs[q].stack) = own
         /\ IF Cardinality(Range(stack)) = 2
              THEN 5 * Count(stack, own) >= 4 * Len(stack)
              ELSE 5 * Count(stack, own) >= 3 * Len(stack)

\* The step dispatches a message after which the completion check runs on the
\* recipient r, not done so far: a SEND, or a REQUEST that made r give a ball.
ChecksCompletion(r) ==
  /\ \/ Dispatches("SEND")
     \/ Dispatches("REQUEST") /\ processes'[r].stack /= processes[r].stack
  /\ Head(messageQueue).to = r
  /\ ~processes[r].isDone

\* C32: the completion check marks a not-done process done exactly when its
\* stack is empty; or the outcome is feasible and its stack is monochrome; or
\* the outcome is infeasible and (a) no other not-done process holds this
\* process's dominant colour as a colour that is not its own dominant colour,
\* (b) this process holds no token, other than of its own dominant colour, of
\* another not-done process's dominant colour, and (c) its dominant-colour
\* share is at least 80% with exactly two colours and at least 60% otherwise.
C32_CompletionCases ==
  /\ [](\A p \in ProcessIds :
          ~processes[p].isDone =>
            checkMonochrome(Engine, p, perfectMonochromeAchievable).procs[p].isDone
              = DoneCase(processes, p, perfectMonochromeAchievable))
  /\ [][\A r \in ProcessIds :
          ChecksCompletion(r) =>
            processes'[r].isDone = DoneCase(processes', r, perfectMonochromeAchievable)]_vars

\* A dispatch has just made a process done whose stack holds two colours, in
\* a run whose outcome is infeasible.
C32_Witness ==
  \E r \in ProcessIds :
    /\ pc[1] = "dispatched"
    /\ Len(systemHistory) >= 2
    /\ ~systemHistory[Len(systemHistory) - 1].processes[r].isDone
    /\ processes[r].isDone
    /\ Cardinality(Range(processes[r].stack)) = 2
    /\ ~perfectMonochromeAchievable

\* Call k counts a loop iteration that is a multiple of the check period.
CheckStep(k) ==
  /\ iterationCount'[k] = iterationCount[k] + 1
  /\ iterationCount'[k] % CheckPeriod = 0

\* The stagnation fallback fires in this step.
Fires == exitKind' = "stagnation" /\ exitKind /= "stagnation"

\* C33: the stagnation fallback fires exactly at the first periodic check
\* (every 10th loop iteration) that is the 5th consecutive check at which the
\* potential is not lower than at the preceding check; when it fires every
\* not-done process is marked done and the loop stops without dispatching any
\* further message.
C33_StagnationFallback ==
  /\ [][\A k \in Drivers :
          CheckStep(k) =>
            LET notLower == calculatePotentialFunction(processes') >= lastPotentialFunction[k]
            IN  /\ stagnationCounter'[k] = IF notLower THEN stagnationCounter[k] + 1 ELSE 0
                /\ Fires <=> (notLower /\ stagnationCounter[k] = StagnationLimit - 1)
                /\ ~Fires => lastPotentialFunction'[k] = calculatePotentialFunction(processes')]_vars
  /\ [][Fires =>
          /\ \E k \in Drivers : CheckStep(k) /\ pc'[k] = "final"
          /\ \A p \in ProcessIds : processes'[p].isDone
          /\ \A p \in ProcessIds : processes'[p].stack = processes[p].stack
          /\ messageQueue' = messageQueue
          /\ dispatched' = dispatched]_vars
  /\ [][exitKind = "stagnation" /\ exitKind' = "stagnation" =>
          dispatched' = dispatched \/ callResult' \in ResetResults]_vars
  /\ [](\A k \in Drivers :
          pc[k] \in {"loop", "dispatched", "sleep"} =>
            stagnationCounter[k] < StagnationLimit)

\* The fallback has fired at a check later than the sixth, so the count of
\* checks without improvement started again after an improvement.
C33_Witness ==
  /\ exitKind = "stagnation"
  /\ pc[1] = "final"
  /\ iterationCount[1] > (StagnationLimit + 1) * CheckPeriod
  /\ \A p \in ProcessIds : processes[p].isDone

\* C34: the driver loop ends without a safety valve (neither stagnation nor
\* the iteration ceiling) only in a state in which every process is done and
\* the queue is empty.
C34_NormalExitAllDone ==
  [][exitKind' = "normal" /\ exitKind /= "normal" =>
       /\ messageQueue = <<>>
       /\ \A p \in ProcessIds : processes[p].isDone]_vars

\* C36: whenever getSystemState().isComplete is true the message queue is
\* empty: no snapshot reports completion while any message (REQUEST, SEND or
\* DONE) is still pending.
C36_CompleteMeansQueueEmpty ==
  /\ callResult = "state" /\ held.state.isComplete =>
       messageQueue = <<>> /\ held.state.messages = <<>>
  /\ held /= NoSnapshot /\ held.state.isComplete => held.state.messages = <<>>
  /\ \A i \in DOMAIN systemHistory :
       systemHistory[i].isComplete => systemHistory[i].messages = <<>>

\* getSystemState() has just returned a snapshot that reports completion,
\* taken after messages had been dispatched.
C36_Witness ==
  /\ callResult = "state"
  /\ held.state.isComplete
  /\ dispatched > 0
  /\ \E p \in ProcessIds : processes[p].stack /= <<>>

\* C38: dispatching a REQUEST or a SEND changes the stack, wanted colour,
\* partner and done flag of the recipient only; every other process's stack,
\* wanted colour, partner and done flag are left unchanged by that dispatch.
C38_DispatchTouchesRecipientOnly ==
  [][Dispatches("REQUEST") \/ Dispatches("SEND") =>
       \A p \in ProcessIds \ {Head(messageQueue).to} :
         /\ processes'[p].stack = processes[p].stack
         /\ processes'[p].wanted = processes[p].wanted
         /\ processes'[p].partner = processes[p].partner
         /\ processes'[p].isDone = processes[p].isDone]_vars

\* A SEND has just been dispatched and made its recipient done while another
\* process, with a partner, is still not done.
C38_Witness ==
  \E r \in ProcessIds :
    /\ pc[1] = "dispatched"
    /\ Len(systemHistory) >= 2
    /\ systemHistory[Len(systemHistory)].totalExchanges
         > systemHistory[Len(systemHistory) - 1].totalExchanges
    /\ ~systemHistory[Len(systemHistory) - 1].processes[r].isDone
    /\ processes[r].isDone
    /\ \E p \in ProcessIds \ {r} : ~processes[p].isDone /\ processes[p].partner /= NoPartner

\* C39: every message in the queue has from and to equal to ids of existing
\* processes with from different from to; REQUEST and SEND always carry a
\* colour and DONE never does, so the dispatcher's drop branches for unknown
\* process ids and missing colours are never taken during a run.
C39_MessagesWellFormed ==
  \A i \in DOMAIN messageQueue :
    LET m == messageQueue[i]
    IN  /\ m.from \in ProcessIds
        /\ m.to \in ProcessIds
        /\ m.from /= m.to
        /\ m.type \in {"REQUEST", "SEND", "DONE"}
        /\ m.type \in {"REQUEST", "SEND"} => m.color \in Colors
        /\ m.type = "DONE" => m.color = Null

\* A REQUEST, a SEND and a DONE are in the queue together.
C39_Witness ==
  /\ OfType(messageQueue, "REQUEST") /= <<>>
  /\ OfType(messageQueue, "SEND") /= <<>>
  /\ OfType(messageQueue, "DONE") /= <<>>

\* C40: whenever a REQUEST is enqueued, the requested colour occurs in the
\* requester's own stack at that moment: a process only ever asks for a
\* colour it already holds.
C40_RequestedColorIsHeld ==
  [][callResult' \in ResetResults
       \/ \A i \in DOMAIN Enqueues :
            Enqueues[i].type = "REQUEST" =>
              Enqueues[i].color \in Range(processes'[Enqueues[i].from].stack)]_vars

\* A dispatch has just made a process that holds all three colours enqueue a
\* REQUEST for a colour of which it holds fewer balls than of another.
C40_Witness ==
  \E r \in ProcessIds :
    /\ pc[1] = "dispatched"
    /\ dispatched > 0
    /\ messageQueue /= <<>>
    /\ messageQueue[Len(messageQueue)].type = "REQUEST"
    /\ messageQueue[Len(messageQueue)].from = r
    /\ Len(systemHistory[Len(systemHistory) - 1].messages) <= Len(messageQueue)
    /\ Range(processes[r].stack) = Colors
    /\ \E c \in Colors :
         Count(processes[r].stack, c)
           > Count(processes[r].stack, messageQueue[Len(messageQueue)].color)

\* ------------------------------------------------------------------ StandaloneConsensusService
\* The engine of tests/standalone-consensus.ts.  It has the fields processes,
\* messageQueue, systemHistory, totalExchanges and isRunning, which the
\* variables of the same names hold; a process has the further field isActive.
\* Its distribution is fixed: reset() takes no argument.

\* Messages one startConsensus() call dispatches at most before it is cut off.
MaxStandaloneDispatched == 130

StandaloneProcesses ==
  [p \in ProcessIds |-> [stack |-> DefaultDistributions[p], wanted |-> Null,
                         partner |-> NoPartner, isDone |-> FALSE, isActive |-> TRUE]]

StandaloneIsSystemComplete(procs) == \A p \in ProcessIds : procs[p].isDone

StandaloneGetSystemState(procs, queue, exchanges) ==
  [processes |-> [p \in ProcessIds |->
                    [id |-> p, stack |-> StackRef(p), wanted |-> procs[p].wanted,
                     partner |-> procs[p].partner, isDone |-> procs[p].isDone,
                     isActive |-> procs[p].isActive]],
   messages |-> queue,
   isComplete |-> StandaloneIsSystemComplete(procs),
   totalExchanges |-> exchanges]

StandaloneSaveSystemState(procs, queue, exchanges, history) ==
  Append(history, StandaloneGetSystemState(procs, queue, exchanges))

\* The loop "if (count > maxCount)" from maxCount = 0 over the colours in
\* the order of their first occurrence.
StandaloneComputeWantedColor(proc) ==
  IF proc.stack = <<>> THEN proc.wanted
  ELSE LET keys == MapKeys(proc.stack)
           first == CHOOSE i \in DOMAIN keys :
                      /\ Count(proc.stack, keys[i]) = MaxCount(proc.stack)
                      /\ \A j \in 1..(i - 1) : Count(proc.stack, keys[j]) < MaxCount(proc.stack)
       IN  keys[first]

RECURSIVE StandaloneOtherProcesses(_, _, _)
StandaloneOtherProcesses(procs, p, i) ==
  IF i > NumProcesses THEN <<>>
  ELSE (IF i /= p /\ ~procs[i].isDone /\ procs[i].isActive THEN <<i>> ELSE <<>>)
       \o StandaloneOtherProcesses(procs, p, i + 1)

StandaloneChoosePartner(procs, p) ==
  LET otherProcesses == StandaloneOtherProcesses(procs, p, 1)
      current == IF procs[p].partner /= NoPartner
                   THEN IndexOf(otherProcesses, procs[p].partner) ELSE 0
  IN  IF otherProcesses = <<>> THEN NoPartner
      ELSE otherProcesses[(current % Len(otherProcesses)) + 1]

StandaloneSendRequest(st, p) ==
  IF st.procs[p].partner = NoPartner \/ st.procs[p].wanted = Null THEN st
  ELSE [st EXCEPT !.queue = Append(@, Message("REQUEST", p, st.procs[p].partner,
                                              st.procs[p].wanted))]

\* computeWantedColor, choosePartner, then sendRequest if a partner was found.
StandaloneContinue(st, p) ==
  LET s1 == [st EXCEPT !.procs[p].wanted = StandaloneComputeWantedColor(st.procs[p])]
      s2 == [s1 EXCEPT !.procs[p].partner = StandaloneChoosePartner(s1.procs, p)]
  IN  IF s2.procs[p].partner /= NoPartner THEN StandaloneSendRequest(s2, p) ELSE s2

RECURSIVE StandaloneDoneMessages(_, _, _)
StandaloneDoneMessages(procs, p, i) ==
  IF i > NumProcesses THEN <<>>
  ELSE (IF i /= p /\ ~procs[i].isDone THEN <<Message("DONE", p, i, Null)>> ELSE <<>>)
       \o StandaloneDoneMessages(procs, p, i + 1)

StandaloneCheckMonochrome(st, p) ==
  IF st.procs[p].stack = <<>> THEN st
  ELSE IF Cardinality(Range(st.procs[p].stack)) = 1
    THEN LET procs == [st.procs EXCEPT ![p].isDone = TRUE, ![p].isActive = FALSE]
         IN  [procs |-> procs, queue |-> st.queue \o StandaloneDoneMessages(procs, p, 1)]
  ELSE st

StandaloneHandleRequest(st, message) ==
  IF message.color = Null \/ st.procs[message.to].isDone THEN st
  ELSE LET r == message.to
           hits == {i \in DOMAIN st.procs[r].stack :
                      /\ st.procs[r].stack[i] = message.color
                      /\ st.procs[r].stack[i] /= st.procs[r].wanted}
           ballIndex == IF hits = {} THEN 0 ELSE CHOOSE i \in hits : \A j \in hits : i <= j
           s1 == IF ballIndex /= 0
                   THEN StandaloneCheckMonochrome(
                          [st EXCEPT !.procs[r].stack = RemoveAt(@, ballIndex),
                                     !.queue = Append(@, Message("SEND", r, message.from,
                                                                 st.procs[r].stack[ballIndex]))],
                          r)
                   ELSE st
       IN  IF ~s1.procs[r].isDone THEN StandaloneContinue(s1, r) ELSE s1

\* The ball of every SEND is discarded.
StandaloneHandleSendDiscards(st, message) == st

\* Returns the pair; the caller adds one to totalExchanges when the ball is taken.
StandaloneHandleSend(st, message) ==
  IF message.color = Null \/ st.procs[message.to].isDone THEN st
  ELSE LET r == message.to
           s1 == StandaloneCheckMonochrome(
                   [st EXCEPT !.procs[r].stack = Append(@, message.color)], r)
       IN  IF ~s1.procs[r].isDone THEN StandaloneContinue(s1, r) ELSE s1

StandaloneHandleDone(st, message) ==
  [st EXCEPT !.procs[message.from].isDone = TRUE, !.procs[message.from].isActive = FALSE]

RECURSIVE StandaloneTriggerFrom(_, _)
StandaloneTriggerFrom(st, i) ==
  IF i > NumProcesses THEN st
  ELSE LET hasPendingMessages == \E k \in DOMAIN st.queue : st.queue[k].from = i
       IN  StandaloneTriggerFrom(
             IF ~st.procs[i].isDone /\ st.procs[i].isActive /\ ~hasPendingMessages
               THEN StandaloneContinue(st, i) ELSE st,
             i + 1)

RECURSIVE StandaloneFirstRequestsFrom(_, _)
StandaloneFirstRequestsFrom(st, i) ==
  IF i > NumProcesses THEN st
  ELSE StandaloneFirstRequestsFrom(
         IF ~st.procs[i].isDone THEN StandaloneContinue(st, i) ELSE st, i + 1)

\* Fields of the other engine and its client that this engine does not have.
standaloneUnused ==
  <<initialDistributions, perfectMonochromeAchievable, iterationCount,
    lastPotentialFunction, stagnationCounter, exitKind, supplied, held, heldAge,
    dispatchers>>

\* The state the constructor leaves.
InitStandalone ==
  /\ initialDistributions = DefaultDistributions
  /\ processes = StandaloneProcesses
  /\ messageQueue = <<>>
  /\ totalExchanges = 0
  /\ isRunning = FALSE
  /\ systemHistory = StandaloneSaveSystemState(StandaloneProcesses, <<>>, 0, <<>>)
  /\ perfectMonochromeAchievable = FALSE
  /\ pc = [k \in Drivers |-> "idle"]
  /\ iterationCount = [k \in Drivers |-> 0]
  /\ lastPotentialFunction = [k \in Drivers |-> 0]
  /\ stagnationCounter = [k \in Drivers |-> 0]
  /\ callResult = "none"
  /\ exitKind = "none"
  /\ dispatched = 0
  /\ supplied = DefaultDistributions
  /\ held = NoSnapshot
  /\ heldAge = 0
  /\ dispatchers = {}

\* reset(), by a client that calls in while every call in progress is
\* suspended at its sleep.
StandaloneReset ==
  /\ \A k \in Drivers : pc[k] \in {"idle", "sleep"}
  /\ processes' = StandaloneProcesses
  /\ messageQueue' = <<>>
  /\ totalExchanges' = 0
  /\ isRunning' = FALSE
  /\ systemHistory' = StandaloneSaveSystemState(StandaloneProcesses, <<>>, 0, <<>>)
  /\ dispatched' = 0
  /\ callResult' = "reset()"
  /\ UNCHANGED <<pc, standaloneUnused>>

\* startConsensus() up to the first evaluation of the loop condition.
StandaloneStartConsensus(k) ==
  /\ \A j \in Drivers : pc[j] \in {"idle", "sleep"}
  /\ FreeSlot(k)
  /\ ~isRunning
  /\ isRunning' = TRUE
  /\ LET st == StandaloneFirstRequestsFrom(Engine, 1)
     IN  processes' = st.procs /\ messageQueue' = st.queue
  /\ pc' = [pc EXCEPT ![k] = "loop"]
  /\ callResult' = "started"
  /\ UNCHANGED <<systemHistory, totalExchanges, dispatched, standaloneUnused>>

\* startConsensus() throws; nothing is touched.
StandaloneStartRejected ==
  /\ \A j \in Drivers : pc[j] \in {"idle", "sleep"}
  /\ isRunning
  /\ callResult' = "already running"
  /\ UNCHANGED <<engineVars, driverVars, exitKind, dispatched, supplied, held, heldAge,
                 dispatchers>>

\* while (this.isRunning && !this.isSystemComplete())
StandaloneLoopCondition == isRunning /\ ~StandaloneIsSystemComplete(processes)

\* The loop is left: isRunning = false and the call returns.
StandaloneLoopExit(k) ==
  /\ pc[k] = "loop"
  /\ ~StandaloneLoopCondition
  /\ isRunning' = FALSE
  /\ pc' = [pc EXCEPT ![k] = "idle"]
  /\ callResult' = "none"
  /\ UNCHANGED <<processes, messageQueue, systemHistory, totalExchanges, dispatched,
                 standaloneUnused>>

\* await processNextMessage(): new requests when the queue is empty, else the
\* first message goes to its handler and the state is saved; then sleep(10).
StandaloneProcessNextMessage(k) ==
  /\ pc[k] = "loop"
  /\ StandaloneLoopCondition
  /\ dispatched < MaxStandaloneDispatched
  /\ IF messageQueue = <<>>
       THEN /\ LET st == StandaloneTriggerFrom(Engine, 1)
               IN  processes' = st.procs /\ messageQueue' = st.queue
            /\ UNCHANGED <<systemHistory, totalExchanges, dispatched>>
       ELSE /\ LET message == Head(messageQueue)
                   st0 == [procs |-> processes, queue |-> Tail(messageQueue)]
                   st == CASE message.type = "REQUEST" -> StandaloneHandleRequest(st0, message)
                           [] message.type = "SEND" -> StandaloneHandleSend(st0, message)
                           [] message.type = "DONE" -> StandaloneHandleDone(st0, message)
                   count == IF /\ message.type = "SEND"
                               /\ message.color /= Null
                               /\ ~processes[message.to].isDone
                              THEN totalExchanges + 1 ELSE totalExchanges
               IN  /\ processes' = st.procs
                   /\ messageQueue' = st.queue
                   /\ totalExchanges' = count
                   /\ systemHistory' =
                        StandaloneSaveSystemState(st.procs, st.queue, count, systemHistory)
            /\ dispatched' = dispatched + 1
  /\ pc' = [pc EXCEPT ![k] = "sleep"]
  /\ callResult' = "none"
  /\ UNCHANGED <<isRunning, standaloneUnused>>

\* sleep(10) is over: back to the loop condition
StandaloneAfterSleep(k) ==
  /\ pc[k] = "sleep"
  /\ \A j \in Drivers \ {k} : pc[j] \in {"idle", "sleep"}
  /\ pc' = [pc EXCEPT ![k] = "loop"]
  /\ callResult' = "none"
  /\ UNCHANGED <<engineVars, iterationCount, lastPotentialFunction, stagnationCounter,
                 exitKind, dispatched, supplied, held, heldAge, dispatchers>>

NextStandalone ==
  \/ StandaloneReset
  \/ \E k \in Drivers : StandaloneStartConsensus(k)
  \/ StandaloneStartRejected
  \/ \E k \in Drivers : StandaloneLoopExit(k)
  \/ \E k \in Drivers : StandaloneProcessNextMessage(k)
  \/ \E k \in Drivers : StandaloneAfterSleep(k)

SpecStandalone == InitStandalone /\ [][NextStandalone]_vars

\* Balls of colour c in the stacks after the step.
StackCountAfter(c) ==
  Count(processes'[1].stack, c) + Count(processes'[2].stack, c)
    + Count(processes'[3].stack, c)

====
